---- MODULE Spec2Model ----
(***************************************************************************)
(* Model of Pool<type> (src/Pool.h): a fixed-capacity object pool kept as  *)
(* an array of pointers m_pArrayLocation[0 .. m_iSize-1] partitioned by    *)
(* m_iNextFreePosition into an active prefix and a free suffix.            *)
(*                                                                         *)
(* The array is a function over 0 .. m_iSize-1 (the source's indices).     *)
(* Objects are heap addresses; `live` is the set of addresses currently    *)
(* allocated by the pool and `val` their contents.                         *)
(***************************************************************************)
EXTENDS Integers, FiniteSets, Sequences, TLC

\* ------------------------------------------------------------------ bounds
\* Largest size passed to a constructor or to size(int).
MaxSize == 3
\* Heap addresses `new type()` can return: more than the pool can hold at
\* once, so that a freed address can either be reused or stay stale.
MaxAddr == MaxSize + 1
Addr == 1 .. MaxAddr
\* The null pointer.
NULL == 0
\* Address of the caller's template object given to Pool(type*, int).
TemplateAddr == MaxAddr + 1
\* Contents of an object; `new type()` yields DefaultVal.
DefaultVal == 0
Val == {0, 1}
\* Arguments the callers try.
SizeArgs == -1 .. MaxSize
PtrArgs == {NULL} \cup Addr \cup {TemplateAddr}

\* ------------------------------------------------------- program constants
\* int m_iSize = 10;
DefaultSize == 10

VARIABLES
    pc,                  \* lifetime of the Pool object
    m_iSize,
    m_iNextFreePosition,
    m_pArrayLocation,
    live,                \* addresses of the objects the pool has allocated and not deleted
    val,                 \* contents of the live objects
    uninitReads,         \* reads of m_pArrayLocation[i] made before the array was ever allocated
    call,                \* the last call: its name, its argument, and for release the
                         \* index its search ended with (i_addressPositionInArray), for
                         \* the template constructor the contents of the template
    ret,                 \* what that call returned (pointer, bool as 1/0, 0 for void)
    err,                 \* the error site that call ran into ("none" when it succeeded)
    before,              \* activeCount() and size() as they were right before that call
    got,                 \* the handle the call before the last one handed out, with the
                         \* activeCount() it started from (NULL if it was no successful getNext)
    lent,                \* the caller's ledger: handles getNext returned that were not
                         \* successfully released since (kept only where a caller keeps one)
    thr,                 \* per thread inside a concurrent getNext: the statement it is
                         \* at, its i_positionPointer and what it returned
    locked               \* whether the threads take an external lock around getNext

vars == <<pc, m_iSize, m_iNextFreePosition, m_pArrayLocation, live, val,
          uninitReads, call, ret, err, before, got, lent, thr, locked>>

pool == <<m_iSize, m_iNextFreePosition, m_pArrayLocation>>

\* What only the callers keep: the ledger and the threads.
harness == <<lent, thr, locked>>

\* The threads that call getNext concurrently.
Threads == {1, 2}

\* ----------------------------------------------------------------- helpers
Min(a, b) == IF a < b THEN a ELSE b

\* The objects held at array indices lo .. hi-1.
Slice(arr, lo, hi) == {arr[i] : i \in lo .. hi - 1}

\* int activeCount()
activeCount == m_iNextFreePosition

\* int freeCount()
freeCount == m_iSize - m_iNextFreePosition

\* int size() const
size == m_iSize

\* type** activeAddresses(int* a_end): the array itself, with the end stop.
activeAddresses == [array |-> m_pArrayLocation, end |-> m_iNextFreePosition]

\* Injective arrays of n addresses taken from the set S: what n successive
\* `new type()` calls can return while S is the unallocated part of the heap.
NewObjects(S, n) ==
    {f \in [0 .. n - 1 -> S] : \A i, j \in 0 .. n - 1 : f[i] = f[j] => i = j}

\* The record of a call.
Call(op, arg, at) == [op |-> op, arg |-> arg, at |-> at]

\* The counters a caller reads before it makes a call.
Counters == [active |-> m_iNextFreePosition, capacity |-> m_iSize]

\* What the caller still holds from the call it made last.
Handed ==
    IF call.op = "getNext" /\ err = "none"
    THEN [h |-> ret, n |-> before.active]
    ELSE [h |-> NULL, n |-> 0]

\* Mutant of ValidSize: zero is let through.
ValidSizeOrZero(n) == n >= 0

\* if (a_iSize > 0), if (a_iNewSize > 0)
ValidSize(n) == n > 0

\* if (m_iNextFreePosition < m_iSize)
HasFree(next, n) == next < n

\* Mutant of Retrieved: the slot before the next free one is handed out.
RetrievedBefore(arr, i_positionPointer) ==
    arr[IF i_positionPointer > 0 THEN i_positionPointer - 1 ELSE 0]

\* return m_pArrayLocation[i_positionPointer];
Retrieved(arr, i_positionPointer) == arr[i_positionPointer]

\* if (i_addressPositionInArray > -1 && i_addressPositionInArray < m_iNextFreePosition)
IsActive(pos, next) == pos > -1 /\ pos < next

\* What the model keeps in m_pArrayLocation while no array is allocated.
NoArray == [i \in {} |-> NULL]

\* Mutant of Find: the search loop stops one slot short of the end.
FindShort(arr, n, a_pAddress) ==
    IF \E i \in 0 .. n - 2 : arr[i] = a_pAddress
    THEN CHOOSE i \in 0 .. n - 2 :
             /\ arr[i] = a_pAddress
             /\ \A j \in 0 .. i - 1 : arr[j] # a_pAddress
    ELSE -1

\* Mutant of Find: the position starts at 0 instead of -1.
FindFromZero(arr, n, a_pAddress) ==
    IF \E i \in 0 .. n - 1 : arr[i] = a_pAddress
    THEN CHOOSE i \in 0 .. n - 1 :
             /\ arr[i] = a_pAddress
             /\ \A j \in 0 .. i - 1 : arr[j] # a_pAddress
    ELSE 0

\* The first index at which the loop of release() finds a_pAddress, or -1.
Find(arr, n, a_pAddress) ==
    IF \E i \in 0 .. n - 1 : arr[i] = a_pAddress
    THEN CHOOSE i \in 0 .. n - 1 :
             /\ arr[i] = a_pAddress
             /\ \A j \in 0 .. i - 1 : arr[j] # a_pAddress
    ELSE -1

\* Mutant of Swap: the released address stays where it was found.
SwapKeepsPlace(arr, pos, lastActive, a_pAddress) == arr

\* Mutant of Swap: the address that was at lastActive is not put back.
SwapLosesLast(arr, pos, lastActive, a_pAddress) ==
    [arr EXCEPT ![lastActive] = a_pAddress]

\* The swap of release(): the released address goes to lastActive, then the
\* address that was at lastActive goes to the index the released one had.
Swap(arr, pos, lastActive, a_pAddress) ==
    LET lastActiveAddress == arr[lastActive]
        step1 == [arr EXCEPT ![lastActive] = a_pAddress]
    IN  [step1 EXCEPT ![pos] = lastActiveAddress]

\* Mutant of NewArray: the old array is copied back to front.
NewArrayReversed(arr, oldSize, a_iNewSize, clones) ==
    [i \in 0 .. a_iNewSize - 1 |->
        IF i < oldSize THEN arr[oldSize - 1 - i] ELSE clones[i - oldSize]]

\* The array size(int) builds: the common prefix of the old array, then the
\* clones (growth only).
NewArray(arr, oldSize, a_iNewSize, clones) ==
    [i \in 0 .. a_iNewSize - 1 |->
        IF i < oldSize THEN arr[i] ELSE clones[i - oldSize]]

\* Mutant of Hanging: the delete loop starts one slot early.
HangingFromBefore(arr, oldSize, a_iNewSize) == Slice(arr, a_iNewSize - 1, oldSize)

\* for (int i = a_iNewSize; i < m_iSize; i++) delete m_pArrayLocation[i];
Hanging(arr, oldSize, a_iNewSize) == Slice(arr, a_iNewSize, oldSize)

\* Mutant of CloneSource: the first object is cloned instead of the last.
CloneSourceFirst(arr, oldSize) == arr[0]

\* *l_pClone = *m_pArrayLocation[m_iSize-1]; the object whose contents are copied.
CloneSource(arr, oldSize) == arr[oldSize - 1]

\* Mutant of Clamp: a position beyond the new size is reset to 0.
ClampToZero(pos, a_iNewSize) == IF pos > a_iNewSize THEN 0 ELSE pos

\* Mutant of Clamp: the position is left where it was.
ClampOff(pos, a_iNewSize) == pos

\* if (m_iNextFreePosition > a_iNewSize) m_iNextFreePosition = a_iNewSize;
Clamp(pos, a_iNewSize) == IF pos > a_iNewSize THEN a_iNewSize ELSE pos

\* -------------------------------------------------------------------- Init
\* The object before a constructor body runs: the default member
\* initialisers have been applied, m_pArrayLocation is not initialised.
InitBase ==
    /\ pc = "new"
    /\ m_iSize = DefaultSize
    /\ m_iNextFreePosition = 0
    /\ m_pArrayLocation = NoArray
    /\ live = {}
    /\ val = [a \in {} |-> DefaultVal]
    /\ uninitReads = 0
    /\ call = Call("none", 0, 0)
    /\ ret = 0
    /\ err = "none"
    /\ before = [active |-> 0, capacity |-> DefaultSize]
    /\ got = [h |-> NULL, n |-> 0]
    /\ lent = {}
    /\ thr = [t \in Threads |-> [pc |-> "idle", i |-> 0, ret |-> NULL]]

Init == InitBase /\ locked = FALSE

\* ------------------------------------------------------------ constructors
\* `delete this` inside a constructor whose array was never allocated: the
\* destructor loops over m_iSize (still DefaultSize) slots of an
\* uninitialised m_pArrayLocation. The behaviour is undefined: the run dies
\* at any of those reads, or survives them all and the constructor returns
\* normally, leaving its caller an object that has been deleted.
DeleteThis ==
    \E n \in 1 .. m_iSize, outcome \in {"crashed", "dangling"} :
        /\ outcome = "dangling" => n = m_iSize
        /\ uninitReads' = n
        /\ pc' = outcome
        /\ err' = "InvalidArgument"
        /\ UNCHANGED <<m_iSize, m_iNextFreePosition, m_pArrayLocation, live, val>>

\* The success path of both sized constructors: a_iSize objects, each
\* default-constructed and then (template constructor) assigned `content`.
Build(a_iSize, content) ==
    \E objs \in NewObjects(Addr \ live, a_iSize) :
        /\ m_iSize' = a_iSize
        /\ m_pArrayLocation' = objs
        /\ live' = live \cup Slice(objs, 0, a_iSize)
        /\ val' = [a \in live' |-> IF a \in live THEN val[a] ELSE content]
        /\ pc' = "alive"
        /\ err' = "none"
        /\ UNCHANGED <<m_iNextFreePosition, uninitReads>>

\* The arrays of fresh objects Pool() is given by DefaultSize successive
\* `new type()` calls on an empty heap: the addresses come in ascending or in
\* descending order (all orders of ten addresses are too many to enumerate).
DefaultObjects ==
    {[i \in 0 .. DefaultSize - 1 |-> i + 1],
     [i \in 0 .. DefaultSize - 1 |-> DefaultSize - i]}

\* Pool()
PoolDefault ==
    /\ pc = "new"
    /\ call' = Call("Pool()", 0, 0)
    /\ before' = Counters
    /\ got' = Handed
    /\ ret' = 0
    /\ err' = "none"
    /\ \E objs \in DefaultObjects :
           /\ m_pArrayLocation' = objs
           /\ live' = Slice(objs, 0, m_iSize)
           /\ val' = [a \in live' |-> DefaultVal]
    /\ pc' = "alive"
    /\ UNCHANGED <<m_iSize, m_iNextFreePosition, uninitReads>>

\* Pool(const int a_iSize)
PoolSized(a_iSize) ==
    /\ pc = "new"
    /\ call' = Call("Pool(int)", a_iSize, 0)
    /\ before' = Counters
    /\ got' = Handed
    /\ ret' = 0
    /\ IF ValidSize(a_iSize) THEN Build(a_iSize, DefaultVal) ELSE DeleteThis

\* Mutant of PoolTemplate: the array is filled with the template's own
\* address instead of clones.
PoolTemplateShared(content, a_iSize) ==
    /\ pc = "new"
    /\ call' = Call("Pool(type*,int)", a_iSize, content)
    /\ before' = Counters
    /\ got' = Handed
    /\ ret' = 0
    /\ IF ValidSize(a_iSize)
       THEN /\ m_iSize' = a_iSize
            /\ m_pArrayLocation' = [i \in 0 .. a_iSize - 1 |-> TemplateAddr]
            /\ live' = {TemplateAddr}
            /\ val' = [a \in live' |-> content]
            /\ pc' = "alive"
            /\ err' = "none"
            /\ UNCHANGED <<m_iNextFreePosition, uninitReads>>
       ELSE DeleteThis

\* Pool(type* a_pObjectToPool, const int a_iSize), the template holding `content`.
PoolTemplate(content, a_iSize) ==
    /\ pc = "new"
    /\ call' = Call("Pool(type*,int)", a_iSize, content)
    /\ before' = Counters
    /\ got' = Handed
    /\ ret' = 0
    /\ IF ValidSize(a_iSize) THEN Build(a_iSize, content) ELSE DeleteThis

\* virtual ~Pool(), run on a constructed pool.
Destructor ==
    /\ pc = "alive"
    /\ call' = Call("~Pool", 0, 0)
    /\ before' = Counters
    /\ got' = Handed
    /\ ret' = 0
    /\ err' = "none"
    /\ live' = live \ Slice(m_pArrayLocation, 0, m_iSize)
    /\ val' = [a \in live' |-> val[a]]
    /\ pc' = "destroyed"
    /\ UNCHANGED <<m_iSize, m_iNextFreePosition, m_pArrayLocation, uninitReads>>

\* ------------------------------------------------------------- operations
\* Mutant of getNext: the test is <=, so a full pool still moves the position.
getNextOverrun ==
    /\ pc = "alive"
    /\ call' = Call("getNext", 0, 0)
    /\ before' = Counters
    /\ got' = Handed
    /\ IF m_iNextFreePosition <= m_iSize
       THEN /\ m_iNextFreePosition' = m_iNextFreePosition + 1
            /\ ret' = IF m_iNextFreePosition < m_iSize
                      THEN m_pArrayLocation[m_iNextFreePosition]
                      ELSE NULL
            /\ err' = IF m_iNextFreePosition < m_iSize THEN "none" ELSE "PoolExhausted"
       ELSE /\ ret' = NULL
            /\ err' = "PoolExhausted"
            /\ UNCHANGED m_iNextFreePosition
    /\ UNCHANGED <<pc, m_iSize, m_pArrayLocation, live, val, uninitReads>>

\* Mutant of getNext: the object handed out is reset to the default contents.
getNextResets ==
    /\ pc = "alive"
    /\ call' = Call("getNext", 0, 0)
    /\ before' = Counters
    /\ got' = Handed
    /\ IF HasFree(m_iNextFreePosition, m_iSize)
       THEN /\ m_iNextFreePosition' = m_iNextFreePosition + 1
            /\ ret' = m_pArrayLocation[m_iNextFreePosition]
            /\ val' = [val EXCEPT ![m_pArrayLocation[m_iNextFreePosition]] = DefaultVal]
            /\ err' = "none"
       ELSE /\ ret' = NULL
            /\ err' = "PoolExhausted"
            /\ UNCHANGED <<m_iNextFreePosition, val>>
    /\ UNCHANGED <<pc, m_iSize, m_pArrayLocation, live, uninitReads>>

\* type* getNext()
getNext ==
    /\ pc = "alive"
    /\ call' = Call("getNext", 0, 0)
    /\ before' = Counters
    /\ got' = Handed
    /\ IF HasFree(m_iNextFreePosition, m_iSize)
       THEN LET i_positionPointer == m_iNextFreePosition
            IN  /\ m_iNextFreePosition' = m_iNextFreePosition + 1
                /\ ret' = Retrieved(m_pArrayLocation, i_positionPointer)
                /\ err' = "none"
       ELSE /\ ret' = NULL
            /\ err' = "PoolExhausted"
            /\ UNCHANGED m_iNextFreePosition
    /\ UNCHANGED <<pc, m_iSize, m_pArrayLocation, live, val, uninitReads>>

\* Mutant of release: the test that the found index is active is left out,
\* so a found address is always released (a write to index -1 lands outside
\* the array).
releaseAnyFound(a_pAddress) ==
    /\ pc = "alive"
    /\ call' = Call("release", a_pAddress, Find(m_pArrayLocation, m_iSize, a_pAddress))
    /\ before' = Counters
    /\ got' = Handed
    /\ ret' = 0
    /\ LET i_addressPositionInArray == Find(m_pArrayLocation, m_iSize, a_pAddress)
           lastActive == m_iNextFreePosition - 1
       IN  IF i_addressPositionInArray > -1
           THEN /\ m_pArrayLocation' =
                       IF lastActive >= 0
                       THEN Swap(m_pArrayLocation, i_addressPositionInArray,
                                 lastActive, a_pAddress)
                       ELSE m_pArrayLocation
                /\ m_iNextFreePosition' = m_iNextFreePosition - 1
                /\ err' = "none"
           ELSE /\ err' = "InvalidRelease"
                /\ UNCHANGED <<m_pArrayLocation, m_iNextFreePosition>>
    /\ UNCHANGED <<pc, m_iSize, live, val, uninitReads>>

\* void release(type* a_pAddress)
release(a_pAddress) ==
    /\ pc = "alive"
    /\ call' = Call("release", a_pAddress, Find(m_pArrayLocation, m_iSize, a_pAddress))
    /\ before' = Counters
    /\ got' = Handed
    /\ ret' = 0
    /\ LET i_addressPositionInArray == Find(m_pArrayLocation, m_iSize, a_pAddress)
       IN  IF IsActive(i_addressPositionInArray, m_iNextFreePosition)
           THEN LET lastActive == m_iNextFreePosition - 1
                IN  /\ m_pArrayLocation' =
                           Swap(m_pArrayLocation, i_addressPositionInArray,
                                lastActive, a_pAddress)
                    /\ m_iNextFreePosition' = m_iNextFreePosition - 1
                    /\ err' = "none"
           ELSE /\ err' = "InvalidRelease"
                /\ UNCHANGED <<m_pArrayLocation, m_iNextFreePosition>>
    /\ UNCHANGED <<pc, m_iSize, live, val, uninitReads>>

\* bool size(int a_iNewSize)
resize(a_iNewSize) ==
    /\ pc = "alive"
    /\ call' = Call("size", a_iNewSize, 0)
    /\ before' = Counters
    /\ got' = Handed
    /\ IF ValidSize(a_iNewSize)
       THEN \E clones \in NewObjects(Addr \ live, a_iNewSize - Min(a_iNewSize, m_iSize)) :
               LET hanging == Hanging(m_pArrayLocation, m_iSize, a_iNewSize)
                   cloned == Slice(clones, 0, a_iNewSize - m_iSize)
               IN  /\ m_pArrayLocation' =
                          NewArray(m_pArrayLocation, m_iSize, a_iNewSize, clones)
                   /\ live' = (live \cup cloned) \ hanging
                   /\ val' = [a \in live' |->
                                 IF a \in cloned
                                 THEN val[CloneSource(m_pArrayLocation, m_iSize)]
                                 ELSE val[a]]
                   /\ m_iNextFreePosition' = Clamp(m_iNextFreePosition, a_iNewSize)
                   /\ m_iSize' = a_iNewSize
                   /\ ret' = 1
                   /\ err' = "none"
       ELSE /\ ret' = 0
            /\ err' = "InvalidArgument"
            /\ UNCHANGED <<m_iSize, m_iNextFreePosition, m_pArrayLocation, live, val>>
    /\ UNCHANGED <<pc, uninitReads>>

\* The caller's code run on an object it has been handed (an active one):
\* it overwrites the object's contents.
Write(i, v) ==
    /\ pc = "alive"
    /\ i < m_iNextFreePosition
    /\ val[m_pArrayLocation[i]] # v
    /\ val' = [val EXCEPT ![m_pArrayLocation[i]] = v]
    /\ call' = Call("write", m_pArrayLocation[i], i)
    /\ before' = Counters
    /\ got' = Handed
    /\ ret' = 0
    /\ err' = "none"
    /\ UNCHANGED <<pc, m_iSize, m_iNextFreePosition, m_pArrayLocation, live, uninitReads>>

\* -------------------------------------------------------------------- Next
Next ==
    \/ \E a_iSize \in SizeArgs : PoolSized(a_iSize) /\ UNCHANGED harness
    \/ \E content \in Val, a_iSize \in SizeArgs :
           PoolTemplate(content, a_iSize) /\ UNCHANGED harness
    \/ Destructor /\ UNCHANGED harness
    \/ getNext /\ UNCHANGED harness
    \/ \E a_pAddress \in PtrArgs : release(a_pAddress) /\ UNCHANGED harness
    \/ \E a_iNewSize \in SizeArgs : resize(a_iNewSize) /\ UNCHANGED harness
    \/ \E i \in 0 .. MaxSize - 1, v \in Val : Write(i, v) /\ UNCHANGED harness

Spec == Init /\ [][Next]_vars

\* Construction by any of the three constructors, then retrieval and
\* destruction.
NextCtor ==
    \/ PoolDefault /\ UNCHANGED harness
    \/ \E a_iSize \in SizeArgs : PoolSized(a_iSize) /\ UNCHANGED harness
    \/ \E content \in Val, a_iSize \in SizeArgs :
           PoolTemplate(content, a_iSize) /\ UNCHANGED harness
    \/ getNext /\ UNCHANGED harness
    \/ Destructor /\ UNCHANGED harness

SpecCtor == Init /\ [][NextCtor]_vars

\* The caller's ledger after a call: a handle getNext returned goes in, a
\* handle whose release succeeded goes out.
Ledger ==
    /\ lent' = IF call'.op = "getNext" /\ err' = "none"
               THEN lent \cup {ret'}
               ELSE IF call'.op = "release" /\ err' = "none"
                    THEN lent \ {call'.arg}
                    ELSE lent
    /\ UNCHANGED <<thr, locked>>

\* A caller that keeps to the contract: it releases only handles it holds
\* and never resizes below the number of objects it holds.
NextLend ==
    \/ \E a_iSize \in SizeArgs : PoolSized(a_iSize) /\ Ledger
    \/ \E content \in Val, a_iSize \in SizeArgs : PoolTemplate(content, a_iSize) /\ Ledger
    \/ getNext /\ Ledger
    \/ \E a_pAddress \in lent : release(a_pAddress) /\ Ledger
    \/ \E a_iNewSize \in SizeArgs :
           /\ a_iNewSize >= m_iNextFreePosition
           /\ resize(a_iNewSize)
           /\ Ledger
    \/ \E i \in 0 .. MaxSize - 1, v \in Val : Write(i, v) /\ Ledger

SpecLend == Init /\ [][NextLend]_vars

\* Any caller, keeping the ledger: every call with every argument.
NextLedger ==
    \/ \E a_iSize \in SizeArgs : PoolSized(a_iSize) /\ Ledger
    \/ \E content \in Val, a_iSize \in SizeArgs : PoolTemplate(content, a_iSize) /\ Ledger
    \/ getNext /\ Ledger
    \/ \E a_pAddress \in PtrArgs : release(a_pAddress) /\ Ledger
    \/ \E a_iNewSize \in SizeArgs : resize(a_iNewSize) /\ Ledger

SpecLedger == Init /\ [][NextLedger]_vars

\* ------------------------------------------- getNext from two threads
\* Each thread makes one getNext call, one statement at a time. With the
\* external lock a thread enters only while no other thread is inside.
Inside(t) == thr[t].pc \in {"read", "inc", "ret"}

Enter(t) ==
    /\ pc = "alive"
    /\ thr[t].pc = "idle"
    /\ locked => \A u \in Threads \ {t} : ~Inside(u)

\* if (m_iNextFreePosition < m_iSize) ... else return nullptr;
T_test(t) ==
    /\ Enter(t)
    /\ thr' = [thr EXCEPT ![t] =
                  IF HasFree(m_iNextFreePosition, m_iSize)
                  THEN [pc |-> "read", i |-> 0, ret |-> NULL]
                  ELSE [pc |-> "done", i |-> 0, ret |-> NULL]]
    /\ UNCHANGED <<pc, pool, live, val, uninitReads, call, ret, err, before, got,
                   lent, locked>>

\* const int i_positionPointer = m_iNextFreePosition;
T_read(t) ==
    /\ thr[t].pc = "read"
    /\ thr' = [thr EXCEPT ![t] = [pc |-> "inc", i |-> m_iNextFreePosition, ret |-> NULL]]
    /\ UNCHANGED <<pc, pool, live, val, uninitReads, call, ret, err, before, got,
                   lent, locked>>

\* Mutant of T_inc: the increment is left out.
T_incSkipped(t) ==
    /\ thr[t].pc = "inc"
    /\ thr' = [thr EXCEPT ![t].pc = "ret"]
    /\ UNCHANGED <<pc, pool, live, val, uninitReads, call, ret, err, before, got,
                   lent, locked>>

\* m_iNextFreePosition++;
T_inc(t) ==
    /\ thr[t].pc = "inc"
    /\ m_iNextFreePosition' = m_iNextFreePosition + 1
    /\ thr' = [thr EXCEPT ![t].pc = "ret"]
    /\ UNCHANGED <<pc, m_iSize, m_pArrayLocation, live, val, uninitReads, call, ret,
                   err, before, got, lent, locked>>

\* return m_pArrayLocation[i_positionPointer]; when the other thread has
\* moved the position to the size in between, the index is past the end of
\* the array and the read is undefined: any pointer value comes back.
T_ret(t) ==
    /\ thr[t].pc = "ret"
    /\ \E p \in PtrArgs :
           /\ thr[t].i < m_iSize => p = Retrieved(m_pArrayLocation, thr[t].i)
           /\ thr' = [thr EXCEPT ![t] = [pc |-> "done", i |-> thr[t].i, ret |-> p]]
    /\ UNCHANGED <<pc, pool, live, val, uninitReads, call, ret, err, before, got,
                   lent, locked>>

\* A pool is built and partly handed out by one thread; then the two
\* threads each call getNext.
NextRace ==
    \/ \E a_iSize \in 1 .. MaxSize : PoolSized(a_iSize) /\ UNCHANGED harness
    \/ /\ \A t \in Threads : thr[t].pc = "idle"
       /\ getNext
       /\ UNCHANGED harness
    \/ \E t \in Threads : T_test(t)
    \/ \E t \in Threads : T_read(t)
    \/ \E t \in Threads : T_inc(t)
    \/ \E t \in Threads : T_ret(t)

\* The threads either all take the lock or none does.
InitRace == InitBase /\ locked \in BOOLEAN

SpecRace == InitRace /\ [][NextRace]_vars

\* ================================================================== claims
\* The pool is constructed and not yet destroyed.
Alive == pc = "alive"

\* No address occurs at two indices of the array.
Distinct(arr, n) == \A i, j \in 0 .. n - 1 : arr[i] = arr[j] => i = j

\* The index of address a in the array of the current state, -1 if absent.
IndexOf(a) ==
    IF \E i \in 0 .. m_iSize - 1 : m_pArrayLocation[i] = a
    THEN CHOOSE i \in 0 .. m_iSize - 1 : m_pArrayLocation[i] = a
    ELSE -1

\* C1: in every state of a constructed pool, whatever calls were made,
\* 0 <= m_iNextFreePosition <= m_iSize and m_iSize >= 1.
C1_PartitionBounds ==
    Alive => /\ 0 <= m_iNextFreePosition
             /\ m_iNextFreePosition <= m_iSize
             /\ m_iSize >= 1

\* C1 witness: a resize below the active count has just clamped the position.
C1_Witness ==
    /\ Alive
    /\ call.op = "size"
    /\ ret = 1
    /\ before.active > call.arg
    /\ m_iNextFreePosition = m_iSize

\* C2: no object identity occurs at two indices of the array, and getNext
\* and release leave the set of objects in the array (and its length) as it was.
C2_NoDuplicates ==
    /\ [](Alive => /\ DOMAIN m_pArrayLocation = 0 .. m_iSize - 1
                   /\ Distinct(m_pArrayLocation, m_iSize))
    /\ [][(Alive /\ call'.op \in {"getNext", "release"}) =>
              /\ m_iSize' = m_iSize
              /\ Slice(m_pArrayLocation', 0, m_iSize') = Slice(m_pArrayLocation, 0, m_iSize)]_vars

\* C2 witness: a release has just swapped an object that was not the last
\* active one, while another object is still active.
C2_Witness ==
    /\ Alive
    /\ call.op = "release"
    /\ err = "none"
    /\ call.at < before.active - 1
    /\ m_iNextFreePosition >= 1

\* C3: whenever m_iNextFreePosition = m_iSize, getNext returns null (the
\* PoolExhausted site) and leaves position, size and array unchanged.
C3_Exhaustion ==
    [][(Alive /\ call'.op = "getNext" /\ m_iNextFreePosition = m_iSize) =>
          /\ ret' = NULL
          /\ err' = "PoolExhausted"
          /\ activeCount' = m_iSize
          /\ UNCHANGED pool]_vars

\* C3 witness: getNext has just failed on a pool of MaxSize objects that are
\* all active.
C3_Witness ==
    /\ Alive
    /\ call.op = "getNext"
    /\ err = "PoolExhausted"
    /\ before.active = MaxSize
    /\ activeCount = m_iSize

\* C4: whenever m_iNextFreePosition < m_iSize, getNext returns the object
\* that was at m_pArrayLocation[m_iNextFreePosition] and raises the position
\* by exactly one; size and array are unchanged.
C4_Retrieve ==
    [][(Alive /\ call'.op = "getNext" /\ m_iNextFreePosition < m_iSize) =>
          /\ ret' = m_pArrayLocation[m_iNextFreePosition]
          /\ err' = "none"
          /\ m_iNextFreePosition' = m_iNextFreePosition + 1
          /\ UNCHANGED <<m_iSize, m_pArrayLocation>>]_vars

\* C4 witness: getNext has just handed out an object from a position other
\* than 0.
C4_Witness ==
    /\ Alive
    /\ call.op = "getNext"
    /\ err = "none"
    /\ before.active >= 1
    /\ ret = m_pArrayLocation[before.active]

\* C5: a successful getNext immediately followed by release of the handle it
\* returned puts activeCount() back to what it was before the getNext, and
\* the released object is then in the free region.
C5_RoundTrip ==
    (Alive /\ call.op = "release" /\ got.h # NULL /\ call.arg = got.h) =>
        /\ activeCount = got.n
        /\ got.h \in Slice(m_pArrayLocation, m_iNextFreePosition, m_iSize)

\* C5 witness: such a round trip has just ended, with other objects active.
C5_Witness ==
    /\ Alive
    /\ call.op = "release"
    /\ got.h # NULL
    /\ call.arg = got.h
    /\ got.n >= 1

C6_WitnessUnknown ==
    /\ Alive
    /\ call.op = "release"
    /\ err = "InvalidRelease"
    /\ call.at = -1
    /\ activeCount >= 1

\* C7: release of a handle found at index i < m_iNextFreePosition puts it at
\* last = m_iNextFreePosition - 1, puts the object that was at last at i,
\* lowers the position by exactly one and changes nothing else.
C7_ReleaseSwap ==
    [][(Alive /\ call'.op = "release"
          /\ IndexOf(call'.arg) > -1 /\ IndexOf(call'.arg) < m_iNextFreePosition) =>
          LET i == IndexOf(call'.arg)
              last == m_iNextFreePosition - 1
          IN  /\ err' = "none"
              /\ m_pArrayLocation'[last] = call'.arg
              /\ m_pArrayLocation'[i] = m_pArrayLocation[last]
              /\ m_iNextFreePosition' = m_iNextFreePosition - 1
              /\ m_iSize' = m_iSize
              /\ DOMAIN m_pArrayLocation' = DOMAIN m_pArrayLocation
              /\ \A k \in DOMAIN m_pArrayLocation :
                     k \notin {i, last} => m_pArrayLocation'[k] = m_pArrayLocation[k]]_vars

\* C7 witness: a release has just moved an object from an index below the
\* last active one.
C7_Witness ==
    /\ Alive
    /\ call.op = "release"
    /\ err = "none"
    /\ call.at >= 0
    /\ call.at < before.active - 1
    /\ m_pArrayLocation[before.active - 1] = call.arg

\* C8 (as claimed): a sized constructor called with a size <= 0 fails
\* cleanly: no pool results, and the failure path makes no read of an array
\* that was never allocated.
C8_CleanFailure ==
    (call.op \in {"Pool(int)", "Pool(type*,int)"} /\ call.arg <= 0) =>
        /\ pc \notin {"alive", "dangling"}
        /\ uninitReads = 0
        /\ live = {}

\* C9: size(n) with n <= 0 returns false and leaves position, size, array
\* and objects unchanged; size(n) returns true exactly when n > 0.
C9_ResizeInvalid ==
    [][(Alive /\ call'.op = "size") =>
          /\ call'.arg <= 0 =>
                 /\ ret' = 0
                 /\ err' = "InvalidArgument"
                 /\ UNCHANGED <<pool, live, val>>
          /\ ret' = 1 <=> call'.arg > 0]_vars

\* C9 witness: size(n) with n <= 0 has just returned false on a pool with
\* active objects.
C9_Witness ==
    /\ Alive
    /\ call.op = "size"
    /\ call.arg <= 0
    /\ ret = 0
    /\ activeCount >= 1

\* C10: size(n) with n > m_iSize keeps every object at its index, keeps the
\* position (so the same objects are active) and makes the size n.
C10_GrowthPreserves ==
    [][(Alive /\ call'.op = "size" /\ call'.arg > m_iSize) =>
          /\ \A i \in 0 .. m_iSize - 1 : m_pArrayLocation'[i] = m_pArrayLocation[i]
          /\ m_iNextFreePosition' = m_iNextFreePosition
          /\ activeCount' = activeCount
          /\ Slice(m_pArrayLocation', 0, m_iNextFreePosition')
                 = Slice(m_pArrayLocation, 0, m_iNextFreePosition)
          /\ m_iSize' = call'.arg
          /\ size' = call'.arg
          /\ ret' = 1]_vars

\* C10 witness: a pool with at least two active objects has just grown.
C10_Witness ==
    /\ Alive
    /\ call.op = "size"
    /\ ret = 1
    /\ before.capacity < m_iSize
    /\ before.active >= 2
    /\ activeCount = before.active

\* C11: size(n) with 0 < n < m_iSize makes the size n and the position
\* min(old position, n), keeps exactly the first n objects in their order and
\* destroys the objects that were at indices n .. old size - 1.
C11_ShrinkTruncates ==
    [][(Alive /\ call'.op = "size" /\ 0 < call'.arg /\ call'.arg < m_iSize) =>
          LET n == call'.arg
          IN  /\ ret' = 1
              /\ size' = n
              /\ activeCount' = Min(m_iNextFreePosition, n)
              /\ m_pArrayLocation' = [i \in 0 .. n - 1 |-> m_pArrayLocation[i]]
              /\ live' = live \ Slice(m_pArrayLocation, n, m_iSize)
              /\ \A a \in Slice(m_pArrayLocation, n, m_iSize) :
                     a \in live /\ a \notin live' /\ a \notin DOMAIN val']_vars

\* C11 witness: a pool with more active objects than the new size has just
\* shrunk, so active objects were cut off.
C11_Witness ==
    /\ Alive
    /\ call.op = "size"
    /\ ret = 1
    /\ m_iSize < before.capacity
    /\ before.active > m_iSize
    /\ activeCount = m_iSize
    /\ Cardinality(live) = m_iSize

\* C12: size(c + N) on a pool of size c puts N new objects at indices
\* c .. c+N-1, each at an address that held no object of the pool and all
\* different, each with the contents the object at old index c-1 had.
C12_CloneOnGrowth ==
    [][(Alive /\ call'.op = "size" /\ call'.arg > m_iSize) =>
          LET c == m_iSize
              new == c .. call'.arg - 1
          IN  /\ DOMAIN m_pArrayLocation' = 0 .. call'.arg - 1
              /\ \A i \in new :
                     /\ m_pArrayLocation'[i] \notin live
                     /\ m_pArrayLocation'[i] \in live'
                     /\ val'[m_pArrayLocation'[i]] = val[m_pArrayLocation[c - 1]]
              /\ \A i, j \in new :
                     m_pArrayLocation'[i] = m_pArrayLocation'[j] => i = j
              /\ Cardinality(live') = Cardinality(live) + (call'.arg - c)]_vars

\* C12 witness: a pool has just grown whose last old object is free and
\* holds other contents than the first object.
C12_Witness ==
    /\ Alive
    /\ call.op = "size"
    /\ ret = 1
    /\ m_iSize > before.capacity
    /\ before.active < before.capacity
    /\ val[m_pArrayLocation[before.capacity - 1]] # val[m_pArrayLocation[0]]
    /\ \A i \in before.capacity .. m_iSize - 1 :
           val[m_pArrayLocation[i]] = val[m_pArrayLocation[before.capacity - 1]]

\* C14: getNext and release, successful or not, leave the contents of every
\* pooled object (and the set of pooled objects) as they were, so the object
\* a getNext hands out holds what it held before the call.
C14_NoReset ==
    [][(Alive /\ call'.op \in {"getNext", "release"}) =>
          /\ val' = val
          /\ live' = live
          /\ (call'.op = "getNext" /\ ret' # NULL) => val'[ret'] = val[ret']]_vars

\* C14 witness: getNext has just handed out an object whose contents are not
\* the default ones, from a pool that also holds an object with the default
\* contents.
C14_Witness ==
    /\ Alive
    /\ call.op = "getNext"
    /\ err = "none"
    /\ val[ret] # DefaultVal
    /\ \E a \in live : val[a] = DefaultVal

\* C15: while the pool is alive the objects in the array are exactly the
\* objects allocated and not deleted (none leaked, none deleted while in the
\* array, none twice in the array); objects are deleted only by a shrinking
\* size(int), which deletes exactly the hanging slots, and by the destructor,
\* which deletes all that is left, each delete hitting a live object.
C15_Lifetime ==
    /\ [](Alive => /\ Slice(m_pArrayLocation, 0, m_iSize) = live
                   /\ Cardinality(live) = m_iSize)
    /\ [](pc = "destroyed" => live = {})
    /\ [][Alive =>
              /\ live \ live' =
                     IF call'.op = "size" /\ ret' = 1
                     THEN Slice(m_pArrayLocation, call'.arg, m_iSize)
                     ELSE IF call'.op = "~Pool"
                          THEN Slice(m_pArrayLocation, 0, m_iSize)
                          ELSE {}
              /\ Alive' => (live \ live') \cap Slice(m_pArrayLocation', 0, m_iSize') = {}]_vars

\* C15 witness: the destructor has run on a pool of several objects, some
\* of them still active, and has left no object behind.
C15_Witness ==
    /\ pc = "destroyed"
    /\ call.op = "~Pool"
    /\ live = {}
    /\ m_iSize >= 2
    /\ before.active >= 1

\* C17: after a successful release(h), h is the first object of the free
\* region, and a getNext made right after it returns h.
C17_LastReleasedFirst ==
    /\ []((Alive /\ call.op = "release" /\ err = "none") =>
              /\ m_iNextFreePosition < m_iSize
              /\ m_pArrayLocation[m_iNextFreePosition] = call.arg)
    /\ [][(Alive /\ call.op = "release" /\ err = "none" /\ call'.op = "getNext") =>
              /\ err' = "none"
              /\ ret' = call.arg]_vars

\* C17 witness: a release has just moved an object from below the last
\* active index to the head of the free region.
C17_Witness ==
    /\ Alive
    /\ call.op = "release"
    /\ err = "none"
    /\ call.at < before.active - 1
    /\ m_pArrayLocation[m_iNextFreePosition] = call.arg

\* C18: with m_iNextFreePosition = 0 every release, whatever the address,
\* takes the InvalidRelease branch and changes nothing; a release that
\* succeeds always has lastActive >= 0.
C18_NothingActive ==
    [][(Alive /\ call'.op = "release") =>
          /\ m_iNextFreePosition = 0 => (err' = "InvalidRelease" /\ UNCHANGED pool)
          /\ err' = "none" => m_iNextFreePosition - 1 >= 0]_vars

\* C18 witness: an address that is in the array has been released while no
\* object was active.
C18_Witness ==
    /\ Alive
    /\ call.op = "release"
    /\ err = "InvalidRelease"
    /\ before.active = 0
    /\ call.at >= 0

\* C13: right after a successful constructor the position is 0 (nothing
\* active, everything free), the size is the requested one (DefaultSize for
\* Pool()), and the array holds that many pairwise distinct objects; after
\* the template constructor each object holds the template's contents and
\* none is the template object itself.
C13_Constructed ==
    (Alive /\ call.op \in {"Pool()", "Pool(int)", "Pool(type*,int)"}) =>
        /\ m_iNextFreePosition = 0
        /\ activeCount = 0
        /\ freeCount = size
        /\ size = (IF call.op = "Pool()" THEN 10 ELSE call.arg)
        /\ DOMAIN m_pArrayLocation = 0 .. m_iSize - 1
        /\ Distinct(m_pArrayLocation, m_iSize)
        /\ Cardinality(live) = m_iSize
        /\ call.op = "Pool(type*,int)" =>
               \A i \in 0 .. m_iSize - 1 :
                   /\ m_pArrayLocation[i] # TemplateAddr
                   /\ val[m_pArrayLocation[i]] = call.at
        /\ call.op # "Pool(type*,int)" =>
               \A i \in 0 .. m_iSize - 1 : val[m_pArrayLocation[i]] = DefaultVal

\* C13 witness: the template constructor has just built a pool of several
\* objects from a template whose contents are not the default ones.
C13_Witness ==
    /\ Alive
    /\ call.op = "Pool(type*,int)"
    /\ call.arg >= 2
    /\ call.at # DefaultVal
    /\ \A a \in live : val[a] = call.at

\* C13 witness, default constructor: Pool() has just built its ten objects.
C13_WitnessDefault ==
    /\ Alive
    /\ call.op = "Pool()"
    /\ Cardinality(live) = 10

\* C16: for a caller that releases only handles it holds and never resizes
\* below its active count, the handles handed out and not yet released are
\* exactly the objects activeAddresses shows (array[0 .. end-1], end of them),
\* and getNext never returns a handle that is still out.
C16_LendingExclusive ==
    /\ [](Alive =>
              /\ lent = Slice(activeAddresses.array, 0, activeAddresses.end)
              /\ Cardinality(lent) = activeAddresses.end
              /\ activeAddresses.end = m_iNextFreePosition)
    /\ [][(Alive /\ call'.op = "getNext" /\ err' = "none") =>
              /\ ret' \notin lent
              /\ ret' \in lent']_vars

\* C16 witness: getNext has just handed out the last object of a pool of
\* MaxSize objects, so that all of them are out.
C16_Witness ==
    /\ Alive
    /\ call.op = "getNext"
    /\ err = "none"
    /\ Cardinality(lent) = MaxSize
    /\ ret \in lent

\* The handles the caller holds whose objects were deleted and whose
\* addresses hold no object of the pool since (no identity reused).
Stale == lent \ live

\* C19: a shrinking size(n) that cuts off active objects deletes them and
\* leaves their handles stale; release of a stale handle takes the
\* InvalidRelease branch and changes nothing, after whatever calls came in
\* between; the objects below n stay active and release of an object in the
\* active region succeeds.
C19_StaleRejected ==
    /\ [][(Alive /\ call'.op = "size" /\ ret' = 1 /\ call'.arg < m_iNextFreePosition) =>
              /\ \A h \in Slice(m_pArrayLocation, call'.arg, m_iNextFreePosition) :
                     /\ h \in lent
                     /\ h \in Stale'
                     /\ h \notin Slice(m_pArrayLocation', 0, m_iSize')
              /\ Slice(m_pArrayLocation', 0, m_iNextFreePosition')
                     = Slice(m_pArrayLocation, 0, call'.arg)]_vars
    /\ [][(Alive /\ call'.op = "release" /\ call'.arg \in Stale) =>
              /\ err' = "InvalidRelease"
              /\ UNCHANGED <<pool, live, val, lent>>]_vars
    /\ [][(Alive /\ call'.op = "release"
              /\ call'.arg \in Slice(m_pArrayLocation, 0, m_iNextFreePosition)) =>
              /\ err' = "none"
              /\ m_iNextFreePosition' = m_iNextFreePosition - 1
              /\ call'.arg \notin lent']_vars

\* C19 witness: the handle of an object a shrink cut off has just been
\* released in vain, after the pool has grown again and while another
\* object is active.
C19_Witness ==
    /\ Alive
    /\ call.op = "release"
    /\ err = "InvalidRelease"
    /\ call.arg \in Stale
    /\ call.at = -1
    /\ activeCount >= 1
    /\ m_iSize = MaxSize
    /\ Cardinality(lent) > activeCount

\* Both threads have returned from getNext.
BothDone == \A t \in Threads : thr[t].pc = "done"

\* Both calls returned the same object, or the position ended above the size.
RaceOutcome ==
    /\ Alive
    /\ BothDone
    /\ \/ thr[1].ret # NULL /\ thr[1].ret = thr[2].ret
       \/ m_iNextFreePosition > m_iSize

\* C20: when two threads run getNext one after the other (under the lock)
\* the two calls never return the same object and the position never
\* exceeds the size, at any point of the calls; such an outcome is reached
\* only when the statements of the two calls interleave.
C20_RaceOnlyUnlocked ==
    /\ RaceOutcome => ~locked
    /\ (Alive /\ locked) =>
           /\ m_iNextFreePosition <= m_iSize
           /\ BothDone =>
                  \/ thr[1].ret = NULL
                  \/ thr[2].ret = NULL
                  \/ thr[1].ret # thr[2].ret

\* C20 witness: without the lock, both calls have read the same position
\* and returned the object in that slot.
C20_Witness ==
    /\ Alive
    /\ ~locked
    /\ BothDone
    /\ thr[1].i = thr[2].i
    /\ thr[1].i < m_iSize
    /\ thr[1].ret = m_pArrayLocation[thr[1].i]
    /\ thr[1].ret = thr[2].ret

\* C20 witness, second outcome: without the lock, the position has ended
\* above the size.
C20_WitnessOverrun ==
    /\ Alive
    /\ ~locked
    /\ BothDone
    /\ m_iNextFreePosition > m_iSize

====
